---- MODULE Spec2Model ----
(***************************************************************************)
(* Model of the schedule checker of the Smart Pet Feeder control panel     *)
(* (src/pew.py): check_and_execute_schedules, the feeding-history helpers  *)
(* it calls and the ESP32 dispense call, run by the page renders of the    *)
(* browser sessions of one user.                                           *)
(*                                                                         *)
(* Time is the wall clock in whole seconds counted from Monday 00:00:00.   *)
(* A page render (a "tick") is split at its blocking I/O calls: reading    *)
(* the schedules, reading the history, the HTTP call to the feeder and     *)
(* the insert into the history.                                            *)
(***************************************************************************)
EXTENDS Integers, Sequences, FiniteSets, TLC

VARIABLES
    clock,      \* datetime.datetime.now(), seconds since Monday 00:00:00
    storeUp,    \* whether the Supabase calls currently succeed
    schedules,  \* rows of feeding_schedules of the user with enabled = True
    history,    \* rows of feeding_history of the user, in insertion order
    pc,         \* per session: position of its run of check_and_execute_schedules
    now,        \* per session: the local `now` of the running tick
    idx         \* per session: position of the for loop in `schedules`

vars == <<clock, storeUp, schedules, history, pc, now, idx>>

----------------------------------------------------------------------------
(* Bounds and program constants *)

\* no new tick starts once the history holds this many rows
MaxHist == 12

\* get_feeding_history(user_id, limit=10)
HistoryLimit == 10
\* requests.post(..., timeout=10): the longest a dispense call stays in flight
ActuatorTimeout == 10
\* (now - entry_time).total_seconds() < 120
DedupSeconds == 120
\* time_diff < 60
WindowSeconds == 60

SecondsPerDay == 24 * 3600

UserId == "u1"

\* two browser sessions (script threads) of the same user
Sessions == {"s1", "s2"}

\* outcomes of requests.post(.../api/dispense, timeout=10)
Responses == {"200", "500", "ConnectionError", "Timeout"}

----------------------------------------------------------------------------
(* datetime helpers *)

WeekdayNames ==
    <<"Monday", "Tuesday", "Wednesday", "Thursday", "Friday", "Saturday", "Sunday">>

At(day, h, m, s) == day * SecondsPerDay + h * 3600 + m * 60 + s

DateOf(t) == t \div SecondsPerDay

SecondOfDay(t) == t % SecondsPerDay

\* now.strftime('%A')
StrftimeA(t) == WeekdayNames[(DateOf(t) % 7) + 1]

\* now.replace(hour=h, minute=m, second=0, microsecond=0)
Replace(t, h, m) == DateOf(t) * SecondsPerDay + h * 3600 + m * 60

Abs(x) == IF x < 0 THEN -x ELSE x

\* datetime.isoformat(): the date and the clock fields, as written to fed_at
IsoFormat(t) ==
    <<DateOf(t), SecondOfDay(t) \div 3600, (SecondOfDay(t) % 3600) \div 60, SecondOfDay(t) % 60>>

\* datetime.datetime.fromisoformat(entry['fed_at'])
FromIsoFormat(f) == f[1] * SecondsPerDay + f[2] * 3600 + f[3] * 60 + f[4]

DigitValue(c) ==
    CASE c = "0" -> 0 [] c = "1" -> 1 [] c = "2" -> 2 [] c = "3" -> 3 [] c = "4" -> 4
      [] c = "5" -> 5 [] c = "6" -> 6 [] c = "7" -> 7 [] c = "8" -> 8 [] c = "9" -> 9

RECURSIVE ToInt(_)
\* int("08") on a sequence of digit characters
ToInt(ds) ==
    IF ds = <<>> THEN 0
    ELSE 10 * ToInt(SubSeq(ds, 1, Len(ds) - 1)) + DigitValue(ds[Len(ds)])

\* schedule_time.split(':') for a "HH:MM" string, given as its characters
SplitColon(str) ==
    LET k == CHOOSE i \in 1..Len(str) : str[i] = ":" /\ \A j \in 1..(i - 1) : str[j] # ":"
    IN  <<SubSeq(str, 1, k - 1), SubSeq(str, k + 1, Len(str))>>

\* schedule_hour, schedule_min = map(int, schedule_time.split(':'))
ParseTime(str) == <<ToInt(SplitColon(str)[1]), ToInt(SplitColon(str)[2])>>

----------------------------------------------------------------------------
(* The schedule checker's decisions *)

\* variant: anchors the schedule to the nearest occurrence, on whichever date
ScheduleDtNearest(s, t) ==
    LET h    == ParseTime(s.schedule_time)[1]
        m    == ParseTime(s.schedule_time)[2]
        same == Replace(t, h, m)
    IN  IF t - same > SecondsPerDay \div 2 THEN same + SecondsPerDay
        ELSE IF same - t > SecondsPerDay \div 2 THEN same - SecondsPerDay
        ELSE same

\* schedule_dt: the schedule's time of day on the calendar date of `now`
ScheduleDt(s, t) == Replace(t, ParseTime(s.schedule_time)[1], ParseTime(s.schedule_time)[2])

\* variant: the window is closed at its ends
IsDueInclusive(s, t) ==
    /\ StrftimeA(t) \in s.days
    /\ Abs(t - ScheduleDt(s, t)) <= WindowSeconds

\* variant: the weekday is not looked at
IsDueAnyDay(s, t) == Abs(t - ScheduleDt(s, t)) < WindowSeconds

\* current_day in schedule_days and abs((now - schedule_dt).total_seconds()) < 60
IsDue(s, t) ==
    /\ StrftimeA(t) \in s.days
    /\ Abs(t - ScheduleDt(s, t)) < WindowSeconds

RECURSIVE Reverse(_)
Reverse(q) == IF q = <<>> THEN <<>> ELSE Append(Reverse(Tail(q)), Head(q))

\* variant: a failed read still delivers the rows
GetFeedingHistoryStale(rows, up, user, limit) ==
    LET mine == SelectSeq(rows, LAMBDA e : e.user_id = user)
        n    == Len(mine)
    IN  Reverse(SubSeq(mine, IF n > limit THEN n - limit + 1 ELSE 1, n))

\* select('*').eq('user_id', user_id).order('fed_at', desc=True).limit(limit);
\* an exception (store unreachable) yields []
GetFeedingHistory(rows, up, user, limit) ==
    IF ~up THEN <<>>
    ELSE LET mine == SelectSeq(rows, LAMBDA e : e.user_id = user)
             n    == Len(mine)
         IN  Reverse(SubSeq(mine, IF n > limit THEN n - limit + 1 ELSE 1, n))

\* variant: looks back 30 seconds only
AlreadyDispensedShort(recent, t, sid) ==
    \E k \in 1..Len(recent) :
        /\ t - FromIsoFormat(recent[k].fed_at) < 30
        /\ recent[k].schedule_id = sid

\* the loop over recent_history that sets already_dispensed
AlreadyDispensed(recent, t, sid) ==
    \E k \in 1..Len(recent) :
        /\ t - FromIsoFormat(recent[k].fed_at) < DedupSeconds
        /\ recent[k].schedule_id = sid

\* dispense_food_api: response.status_code == 200, any exception gives False
DispenseFoodApi(r) == r = "200"

\* the row log_feeding inserts
FeedingRow(user, portion, feedType, sid, t) ==
    [user_id |-> user, portion |-> portion, type |-> feedType,
     schedule_id |-> sid, fed_at |-> IsoFormat(t)]

----------------------------------------------------------------------------
(* Inputs: the instants at which the clock is observed, the schedule tables *)

Instants ==
    << At(0, 7, 59, 0),  At(0, 7, 59, 59), At(0, 8, 0, 0),  At(0, 8, 0, 59),
       At(0, 8, 1, 0),   At(0, 23, 59, 30), At(1, 0, 0, 0),  At(1, 8, 0, 0) >>

HasNext(t) == \E k \in 1..(Len(Instants) - 1) : Instants[k] = t

NextInstant(t) == Instants[(CHOOSE k \in 1..(Len(Instants) - 1) : Instants[k] = t) + 1]

T0800 == <<"0", "8", ":", "0", "0">>
T2359 == <<"2", "3", ":", "5", "9">>
T0000 == <<"0", "0", ":", "0", "0">>

Schedule(id, time, portion, days) ==
    [id |-> id, schedule_time |-> time, portion |-> portion, days |-> days]

\* two schedules for the same minute, one just before and one just after
\* midnight, and one without days
MainSchedules ==
    << Schedule(1, T0800, 1, {"Monday"}),
       Schedule(2, T0800, 2, {"Monday"}),
       Schedule(3, T2359, 1, {"Monday", "Tuesday"}),
       Schedule(4, T0000, 1, {"Monday", "Tuesday"}),
       Schedule(5, T0800, 1, {}) >>

\* more schedules for the same minute than the dedup read fetches rows
ManySchedules ==
    [k \in 1..(HistoryLimit + 1) |-> Schedule(k, T0800, 1, {"Monday"})]

\* a single schedule
OutageSchedules == << Schedule(1, T0800, 1, {"Monday"}) >>

----------------------------------------------------------------------------
(* Actions *)

Init ==
    /\ clock = Instants[1]
    /\ storeUp = TRUE
    /\ schedules = MainSchedules
    /\ history = <<>>
    /\ pc = [p \in Sessions |-> "idle"]
    /\ now = [p \in Sessions |-> 0]
    /\ idx = [p \in Sessions |-> 0]

\* a page render reaches the dashboard tab: schedules = get_user_schedules(),
\* now = datetime.datetime.now(); a failed read gives [] and the tick returns
TickStart(p) ==
    /\ pc[p] = "idle"
    /\ Len(history) < MaxHist
    /\ IF storeUp /\ schedules # <<>>
       THEN /\ pc' = [pc EXCEPT ![p] = "eval"]
            /\ now' = [now EXCEPT ![p] = clock]
            /\ idx' = [idx EXCEPT ![p] = 1]
       ELSE UNCHANGED <<pc, now, idx>>
    /\ UNCHANGED <<clock, storeUp, schedules, history>>

\* one iteration of the for loop up to the call of dispense_food_api
Eval(p) ==
    /\ pc[p] = "eval"
    /\ idx[p] <= Len(schedules)
    /\ LET s == schedules[idx[p]]
       IN  IF /\ IsDue(s, now[p])
              /\ ~AlreadyDispensed(GetFeedingHistory(history, storeUp, UserId, HistoryLimit),
                                   now[p], s.id)
           THEN /\ pc' = [pc EXCEPT ![p] = "dispensing"]
                /\ UNCHANGED idx
           ELSE /\ idx' = [idx EXCEPT ![p] = idx[p] + 1]
                /\ UNCHANGED pc
    /\ UNCHANGED <<clock, storeUp, schedules, history, now>>

\* the for loop is exhausted: return False
TickReturnFalse(p) ==
    /\ pc[p] = "eval"
    /\ idx[p] > Len(schedules)
    /\ pc' = [pc EXCEPT ![p] = "idle"]
    /\ now' = [now EXCEPT ![p] = 0]
    /\ idx' = [idx EXCEPT ![p] = 0]
    /\ UNCHANGED <<clock, storeUp, schedules, history>>

\* variant: a failed dispense ends the tick
AfterFailedDispenseAbort(p) ==
    /\ pc' = [pc EXCEPT ![p] = "idle"]
    /\ idx' = [idx EXCEPT ![p] = 0]

\* what the tick does once dispense_food_api has returned False
AfterFailedDispense(p) ==
    /\ pc' = [pc EXCEPT ![p] = "eval"]
    /\ idx' = [idx EXCEPT ![p] = idx[p] + 1]

\* dispense_food_api returns: the feeder answered r
DispenseReturn(p, r) ==
    /\ pc[p] = "dispensing"
    /\ IF DispenseFoodApi(r)
       THEN /\ pc' = [pc EXCEPT ![p] = "logging"]
            /\ UNCHANGED idx
       ELSE AfterFailedDispense(p)
    /\ UNCHANGED <<clock, storeUp, schedules, history, now>>

\* variant: the tick returns without inserting the row
LogFeedingNoInsert(p) ==
    /\ pc[p] = "logging"
    /\ pc' = [pc EXCEPT ![p] = "idle"]
    /\ now' = [now EXCEPT ![p] = 0]
    /\ idx' = [idx EXCEPT ![p] = 0]
    /\ UNCHANGED <<clock, storeUp, schedules, history>>

\* log_feeding(user_id, portion, 'Scheduled', id) then return True; a failed
\* insert is swallowed by log_feeding
LogFeeding(p) ==
    /\ pc[p] = "logging"
    /\ history' =
          IF storeUp
          THEN Append(history, FeedingRow(UserId, schedules[idx[p]].portion, "Scheduled",
                                          schedules[idx[p]].id, clock))
          ELSE history
    /\ pc' = [pc EXCEPT ![p] = "idle"]
    /\ now' = [now EXCEPT ![p] = 0]
    /\ idx' = [idx EXCEPT ![p] = 0]
    /\ UNCHANGED <<clock, storeUp, schedules>>

\* time passes; a running tick is not outlived by more than the timeout of
\* its feeder call
Advance ==
    /\ HasNext(clock)
    /\ \A p \in Sessions : pc[p] # "idle" => NextInstant(clock) - now[p] <= ActuatorTimeout
    /\ clock' = NextInstant(clock)
    /\ UNCHANGED <<storeUp, schedules, history, pc, now, idx>>

Next ==
    \/ \E p \in Sessions : TickStart(p)
    \/ \E p \in Sessions : Eval(p)
    \/ \E p \in Sessions : TickReturnFalse(p)
    \/ \E p \in Sessions, r \in Responses : DispenseReturn(p, r)
    \/ \E p \in Sessions : LogFeeding(p)
    \/ Advance

Spec == Init /\ [][Next]_vars

\* one session whose feeder always answers 200, and eleven schedules for the
\* same minute
InitMany ==
    /\ clock = Instants[1]
    /\ storeUp = TRUE
    /\ schedules = ManySchedules
    /\ history = <<>>
    /\ pc = [p \in Sessions |-> "idle"]
    /\ now = [p \in Sessions |-> 0]
    /\ idx = [p \in Sessions |-> 0]

NextMany ==
    \/ TickStart("s1")
    \/ Eval("s1")
    \/ TickReturnFalse("s1")
    \/ DispenseReturn("s1", "200")
    \/ LogFeeding("s1")
    \/ Advance

SpecMany == InitMany /\ [][NextMany]_vars

\* the Supabase calls start or stop raising exceptions
ToggleStore ==
    /\ storeUp' = ~storeUp
    /\ UNCHANGED <<clock, schedules, history, pc, now, idx>>

\* one session, one schedule, and a store that comes and goes
InitOutage ==
    /\ clock = Instants[1]
    /\ storeUp = TRUE
    /\ schedules = OutageSchedules
    /\ history = <<>>
    /\ pc = [p \in Sessions |-> "idle"]
    /\ now = [p \in Sessions |-> 0]
    /\ idx = [p \in Sessions |-> 0]

NextOutage ==
    \/ TickStart("s1")
    \/ Eval("s1")
    \/ TickReturnFalse("s1")
    \/ \E r \in Responses : DispenseReturn("s1", r)
    \/ LogFeeding("s1")
    \/ Advance
    \/ ToggleStore

SpecOutage == InitOutage /\ [][NextOutage]_vars

----------------------------------------------------------------------------
(* Vocabulary of the properties *)

\* the schedule's time of day, in seconds after midnight
TimeOfDay(s) == ParseTime(s.schedule_time)[1] * 3600 + ParseTime(s.schedule_time)[2] * 60

\* session p takes a step of its tick
Moves(p) == pc'[p] # pc[p] \/ idx'[p] # idx[p]

\* session p is about to evaluate a schedule
AtSchedule(p) == pc[p] = "eval" /\ idx[p] <= Len(schedules)

\* the history holds a row of schedule sid dated on the calendar date of t
LoggedOn(sid, t) ==
    \E k \in 1..Len(history) :
        /\ history[k].schedule_id = sid
        /\ history[k].fed_at[1] = DateOf(t)

\* the same, for a row written no later than t
LoggedBy(sid, t) ==
    \E k \in 1..Len(history) :
        /\ history[k].schedule_id = sid
        /\ history[k].fed_at[1] = DateOf(t)
        /\ FromIsoFormat(history[k].fed_at) <= t

\* the newest row is a Scheduled row of schedule sid written on the date of t,
\* before t
NewestIs(sid, t) ==
    /\ history # <<>>
    /\ history[Len(history)].schedule_id = sid
    /\ history[Len(history)].type = "Scheduled"
    /\ history[Len(history)].fed_at[1] = DateOf(t)
    /\ FromIsoFormat(history[Len(history)].fed_at) <= t

----------------------------------------------------------------------------
(* Properties *)

\* C1: a tick that runs inside a schedule's match window right after a tick
\* that dispatched the schedule and logged it (the log row is the newest row
\* and the read sees it) makes no feeder call for the schedule and appends
\* nothing: it moves on to the next schedule.
C1_SecondRunSkips ==
    [][\A p \in Sessions :
          ( /\ AtSchedule(p)
            /\ Moves(p)
            /\ storeUp
            /\ IsDue(schedules[idx[p]], now[p])
            /\ NewestIs(schedules[idx[p]].id, now[p]) )
          => /\ pc'[p] = "eval"
             /\ idx'[p] = idx[p] + 1
             /\ history' = history]_vars

\* a tick started after schedule 1 was logged has passed schedule 1, which
\* was due, without dispatching it
C1_Witness ==
    \E p \in Sessions :
        /\ pc[p] = "eval"
        /\ idx[p] = 2
        /\ IsDue(schedules[1], now[p])
        /\ NewestIs(schedules[1].id, now[p])
        /\ FromIsoFormat(history[Len(history)].fed_at) < now[p]

\* C2 as stated: on a weekday of the schedule, the schedule is due exactly
\* when now is in [time_of_day, time_of_day + 60s).
C2_HalfOpenWindow ==
    \A p \in Sessions : \A i \in 1..Len(schedules) :
        (pc[p] # "idle" /\ StrftimeA(now[p]) \in schedules[i].days)
        => ( IsDue(schedules[i], now[p])
             <=> /\ TimeOfDay(schedules[i]) <= SecondOfDay(now[p])
                 /\ SecondOfDay(now[p]) < TimeOfDay(schedules[i]) + WindowSeconds )

\* C2 amended: on a weekday of the schedule, the schedule is due exactly when
\* now is strictly less than 60s away from time_of_day on now's date, before
\* or after: in (time_of_day - 60s, time_of_day + 60s).
C2_SymmetricWindow ==
    \A p \in Sessions : \A i \in 1..Len(schedules) :
        (pc[p] # "idle" /\ StrftimeA(now[p]) \in schedules[i].days)
        => ( IsDue(schedules[i], now[p])
             <=> /\ TimeOfDay(schedules[i]) - WindowSeconds < SecondOfDay(now[p])
                 /\ SecondOfDay(now[p]) < TimeOfDay(schedules[i]) + WindowSeconds )

\* a feeder call is in flight for a tick that ran before the schedule's time
C2_Witness ==
    \E p \in Sessions :
        /\ pc[p] = "dispensing"
        /\ SecondOfDay(now[p]) < TimeOfDay(schedules[idx[p]])

C4_AllDueDispatched ==
    [][\A p \in Sessions :
          (pc[p] # "idle" /\ pc'[p] = "idle")
          => \A j \in (idx[p] + 1)..Len(schedules) :
                ~ ( /\ IsDue(schedules[j], now[p])
                    /\ ~AlreadyDispensed(
                           GetFeedingHistory(history', storeUp, UserId, HistoryLimit),
                           now[p], schedules[j].id) )]_vars

\* C5: a tick evaluating a due schedule calls the feeder if no dispatch of
\* the schedule was logged on that date (a failure leaves no trace that would
\* suppress the retry), and does not call it once a dispatch of the schedule
\* has been logged on that date.
C5_RetryThenSuppress ==
    [][\A p \in Sessions :
          (AtSchedule(p) /\ Moves(p) /\ IsDue(schedules[idx[p]], now[p]))
          => /\ ~LoggedOn(schedules[idx[p]].id, now[p]) => pc'[p] = "dispensing"
             /\ LoggedBy(schedules[idx[p]].id, now[p]) => pc'[p] # "dispensing"]_vars

\* C6: no session has a feeder call in flight while another session of the
\* owner is between its dedup read and its log append.
C6_SingleFlight ==
    \A p, q \in Sessions :
        (p # q /\ pc[p] = "dispensing") => pc[q] \notin {"dispensing", "logging"}

\* C7: a failed feeder call moves the tick on to the next schedule of the
\* list with the same now; a tick ends only at the end of the list or after
\* a successful dispatch.
C7_FailureContinues ==
    [][\A p \in Sessions :
          /\ (pc[p] = "dispensing" /\ Moves(p) /\ pc'[p] # "logging")
             => /\ pc'[p] = "eval"
                /\ idx'[p] = idx[p] + 1
                /\ now'[p] = now[p]
          /\ (pc[p] # "idle" /\ pc'[p] = "idle")
             => (pc[p] = "logging" \/ idx[p] > Len(schedules))]_vars

\* schedule 2 is being dispatched in a tick whose dispatch of schedule 1
\* failed
C7_Witness ==
    \E p \in Sessions :
        /\ pc[p] = "dispensing"
        /\ idx[p] = 2
        /\ IsDue(schedules[1], now[p])
        /\ ~LoggedOn(schedules[1].id, now[p])

\* C8: a schedule whose days do not contain the weekday of now is not due,
\* whatever the time, and no feeder call or log append is ever made for it;
\* a schedule without days is never due.
C8_OffDayNeverDue ==
    \A p \in Sessions :
        pc[p] # "idle"
        => /\ \A i \in 1..Len(schedules) :
                 /\ StrftimeA(now[p]) \notin schedules[i].days
                    => ~IsDue(schedules[i], now[p])
                 /\ schedules[i].days = {} => ~IsDue(schedules[i], now[p])
           /\ pc[p] \in {"dispensing", "logging"}
                 => StrftimeA(now[p]) \in schedules[idx[p]].days

\* a tick has passed, at the schedule's very time of day, a schedule that
\* does not recur on that weekday, and the schedule without days
C8_Witness ==
    \E p \in Sessions :
        /\ pc[p] = "eval"
        /\ idx[p] > Len(schedules)
        /\ \E i \in 1..Len(schedules) : schedules[i].days = {}
        /\ \E i \in 1..Len(schedules) :
              /\ schedules[i].days # {}
              /\ StrftimeA(now[p]) \notin schedules[i].days
              /\ SecondOfDay(now[p]) = TimeOfDay(schedules[i])

\* C9: a tick evaluating a due schedule does not call the feeder when the
\* history holds a row of that schedule dated on now's calendar date, however
\* many rows were logged after it.
C9_OccurrenceKeyDedup ==
    [][\A p \in Sessions :
          ( /\ AtSchedule(p)
            /\ Moves(p)
            /\ IsDue(schedules[idx[p]], now[p])
            /\ LoggedOn(schedules[idx[p]].id, now[p]) )
          => pc'[p] # "dispensing"]_vars

\* C10: a schedule is not due in the part of a window around its time of day
\* that lies on the adjacent calendar date: not after midnight for a schedule
\* late in the day, not before midnight for a schedule early in the day.
C10_NoDayCrossing ==
    \A p \in Sessions : \A i \in 1..Len(schedules) :
        (pc[p] # "idle" /\ IsDue(schedules[i], now[p]))
        => /\ ~ ( /\ TimeOfDay(schedules[i]) + WindowSeconds > SecondsPerDay
                  /\ SecondOfDay(now[p]) < TimeOfDay(schedules[i]) + WindowSeconds - SecondsPerDay )
           /\ ~ ( /\ TimeOfDay(schedules[i]) - WindowSeconds < 0
                  /\ SecondOfDay(now[p]) > TimeOfDay(schedules[i]) - WindowSeconds + SecondsPerDay )

\* a tick has passed, half a minute before midnight, a schedule for 00:00
\* that recurs on both days, without dispatching it
C10_Witness ==
    \E p \in Sessions : \E i \in 1..Len(schedules) :
        /\ pc[p] = "eval"
        /\ idx[p] > i
        /\ TimeOfDay(schedules[i]) = 0
        /\ SecondOfDay(now[p]) > SecondsPerDay - WindowSeconds
        /\ StrftimeA(now[p]) \in schedules[i].days
        /\ StrftimeA(now[p] + WindowSeconds) \in schedules[i].days
        /\ ~LoggedOn(schedules[i].id, now[p])

\* C11: a failed history read gives the tick an empty list: a tick that
\* evaluates a due schedule while the store is unreachable calls the feeder,
\* whatever the history holds, and does not end.
C11_ReadFailureFailsOpen ==
    [][\A p \in Sessions :
          ( /\ AtSchedule(p)
            /\ Moves(p)
            /\ ~storeUp
            /\ IsDue(schedules[idx[p]], now[p]) )
          => /\ GetFeedingHistory(history, storeUp, UserId, HistoryLimit) = <<>>
             /\ pc'[p] = "dispensing"
             /\ idx'[p] = idx[p]
             /\ now'[p] = now[p]]_vars

\* a feeder call is in flight for a schedule of which one of the newest rows,
\* written less than 120 seconds before the tick's now, records a dispatch
C11_Witness ==
    \E p \in Sessions :
        /\ pc[p] = "dispensing"
        /\ \E k \in 1..Len(history) :
              /\ Len(history) - k < HistoryLimit
              /\ history[k].schedule_id = schedules[idx[p]].id
              /\ history[k].type = "Scheduled"
              /\ FromIsoFormat(history[k].fed_at) <= now[p]
              /\ now[p] - FromIsoFormat(history[k].fed_at) < DedupSeconds

====
